---- MODULE Spec2Model ----
(***************************************************************************)
(* Session / authentication core of the attendance register front end:    *)
(* token codec (utils/auth.js), API client interceptors (services/api.js) *)
(* and the AuthProvider controller (contexts/AuthContext.js).             *)
(*                                                                         *)
(* JavaScript is single threaded: everything a handler does between two   *)
(* awaits is one atomic step.  A step of the model is therefore one call  *)
(* up to its first await, or one backend answer together with the whole   *)
(* promise chain it wakes up (response interceptors, then the awaiting    *)
(* controller operation).                                                 *)
(***************************************************************************)
EXTENDS Integers, Sequences, FiniteSets, TLC

\* ---------------------------------------------------------------- bounds
MaxTime == 1        \* wall clock runs 0..MaxTime (seconds)
MaxSer  == 1        \* number of token issuances the backend performs
MaxReq  == 1        \* requests in flight at the same time
MaxIcpt == 2        \* retry interceptors registered on the client
MaxConc == 2        \* requests in flight together in the concurrency scenario
MaxSeg  == 4        \* '.'-separated segments of a token given to the codec
MaxHops == 6        \* navigations followed from one starting path

NoExp     == -1     \* payload without an exp field (undefined)

\* ---------------------------------------------------------------- tokens
\* A token is the string kept in localStorage.  nseg is the number of
\* '.'-separated segments, mid tells whether the middle segment is
\* base64url JSON, u/exp/ser are payload fields (ser stands for iat/jti and
\* tells two issuances apart), typ is the payload's token type.
NoToken == [typ |-> "none", nseg |-> 0, mid |-> "none", u |-> 0, exp |-> 0, ser |-> 0]

AccessTok(u, exp, ser) ==
    [typ |-> "access", nseg |-> 3, mid |-> "json", u |-> u, exp |-> exp, ser |-> ser]

RefreshTok(u, ser) ==
    [typ |-> "refresh", nseg |-> 3, mid |-> "json", u |-> u, exp |-> MaxTime + 5, ser |-> ser]

\* what a previous run of the application may have left in localStorage
\* (the refresh token is only ever written together with an access token)
InitAccess ==
    { NoToken,
      AccessTok(1, 1, 0),                                   \* valid at time 0
      AccessTok(1, 0, 0),                                   \* exp = now: expired
      AccessTok(1, NoExp, 0),                               \* no exp claim
      [AccessTok(1, 1, 0) EXCEPT !.nseg = 2],               \* two segments
      [AccessTok(1, 1, 0) EXCEPT !.mid = "garbage"] }       \* unparsable payload

InitRefresh == { NoToken, RefreshTok(1, 0) }

\* -------------------------------------------------------------- accounts
Undef == "undefined"

\* the account that signs in (one logical session, no multi-account support)
Accounts == {1}

UserTable(u) ==
    IF u = 1
    THEN [id |-> 1, email |-> "a@b.com", first_name |-> "Ann", last_name |-> "Lee",
          role |-> "teacher"]
    ELSE IF u = 2
    THEN [id |-> 2, email |-> "c@d.com", first_name |-> Undef, last_name |-> Undef,
          role |-> "admin"]
    ELSE [id |-> u, email |-> "e@f.com", first_name |-> "Bob", last_name |-> "",
          role |-> "guest"]

NullPayload == [isnull |-> TRUE, sub |-> 0, email |-> Undef, first_name |-> Undef,
                last_name |-> Undef, role |-> Undef, exp |-> NoExp, iat |-> 0]

NullUser == [isnull |-> TRUE, name |-> <<>>, role |-> Undef, email |-> Undef, id |-> 0]

\* `${first} ${last}`.trim(): the words that remain, an empty word leaves
\* only its neighbour; an undefined field prints as "undefined"
TrimName(first, last) == SelectSeq(<<first, last>>, LAMBDA w : w # "")

\* ----------------------------------------------------------- utils/auth.js
\* variant: the second segment is decoded however many segments there are
decodeToken_AnySegments(token) ==
    IF token = NoToken THEN NullPayload
    ELSE IF token.nseg < 2 THEN NullPayload
    ELSE IF token.mid # "json" THEN NullPayload
    ELSE [isnull |-> FALSE, sub |-> UserTable(token.u).id,
          email |-> UserTable(token.u).email,
          first_name |-> UserTable(token.u).first_name,
          last_name |-> UserTable(token.u).last_name,
          role |-> UserTable(token.u).role,
          exp |-> token.exp, iat |-> token.ser]

decodeToken(token) ==
    IF token = NoToken THEN NullPayload
    ELSE IF token.nseg # 3 THEN NullPayload
    ELSE IF token.mid # "json" THEN NullPayload
    ELSE [isnull |-> FALSE, sub |-> UserTable(token.u).id,
          email |-> UserTable(token.u).email,
          first_name |-> UserTable(token.u).first_name,
          last_name |-> UserTable(token.u).last_name,
          role |-> UserTable(token.u).role,
          exp |-> token.exp, iat |-> token.ser]

\* variant: expiry compared with >= (a token is still accepted at exp = now)
isTokenValid_Ge(token, currentTime) ==
    LET decoded == decodeToken(token)
    IN  IF decoded.isnull THEN FALSE
        ELSE IF decoded.exp = NoExp THEN FALSE
        ELSE decoded.exp >= currentTime

\* variant: a payload without exp never expires
isTokenValid_NoExpValid(token, currentTime) ==
    LET decoded == decodeToken(token)
    IN  IF decoded.isnull THEN FALSE
        ELSE IF decoded.exp = NoExp THEN TRUE
        ELSE decoded.exp > currentTime

isTokenValid(token, currentTime) ==
    LET decoded == decodeToken(token)
    IN  IF decoded.isnull THEN FALSE
        ELSE IF decoded.exp = NoExp THEN FALSE
        ELSE decoded.exp > currentTime

\* getUserDisplayName: "first last", else first, else email, else a fixed
\* text (as the words of the name)
getUserDisplayName(usr) ==
    LET has(f) == f # Undef /\ f # ""
    IN  IF usr.isnull THEN <<"Unknown User">>
        ELSE IF has(usr.first_name) /\ has(usr.last_name)
        THEN <<usr.first_name, usr.last_name>>
        ELSE IF has(usr.first_name) THEN <<usr.first_name>>
        ELSE IF has(usr.email) THEN <<usr.email>>
        ELSE <<"Unknown User">>

NullProfile == [isnull |-> TRUE, id |-> 0, email |-> Undef, first_name |-> Undef,
                last_name |-> Undef, role |-> Undef, exp |-> NoExp, iat |-> 0]

\* variant: the token's expiry is not looked at
getUserFromToken_NoValidity(token, currentTime) ==
    LET decoded == decodeToken(token)
    IN  IF decoded.isnull THEN NullProfile
        ELSE [isnull |-> FALSE, id |-> decoded.sub, email |-> decoded.email,
              first_name |-> decoded.first_name, last_name |-> decoded.last_name,
              role |-> decoded.role, exp |-> decoded.exp, iat |-> decoded.iat]

getUserFromToken(token, currentTime) ==
    LET decoded == decodeToken(token)
    IN  IF decoded.isnull \/ ~isTokenValid(token, currentTime) THEN NullProfile
        ELSE [isnull |-> FALSE, id |-> decoded.sub, email |-> decoded.email,
              first_name |-> decoded.first_name, last_name |-> decoded.last_name,
              role |-> decoded.role, exp |-> decoded.exp, iat |-> decoded.iat]

\* -------------------------------------------------- App.js: PrivateRoute
Roles == {"admin", "teacher", "parent"}

\* variant: a role without a dashboard is sent to the parent dashboard
dashboardMap_ParentDefault(role) ==
    CASE role = "admin"   -> "/admin"
      [] role = "teacher" -> "/teacher"
      [] OTHER            -> "/parent"

dashboardMap(role) ==
    CASE role = "admin"   -> "/admin"
      [] role = "teacher" -> "/teacher"
      [] role = "parent"  -> "/parent"
      [] OTHER            -> "/login"

\* "children" when the wrapped screen is rendered, else the Navigate target
PrivateRoute(allowedRoles, authenticated, usr) ==
    IF ~authenticated THEN "/login"
    ELSE IF allowedRoles # {} /\ usr.role \notin allowedRoles
    THEN dashboardMap(usr.role)
    ELSE "children"

\* AppRoutes: what the element matched by path renders; "Login" and
\* "children" are screens, anything else is the target of a <Navigate>
AppRoutes(path, authenticated, usr) ==
    IF ~authenticated
    THEN IF path = "/login" THEN "Login" ELSE "/login"
    ELSE CASE path = "/"        -> IF usr.role = "admin" THEN "/admin"
                                   ELSE IF usr.role = "teacher" THEN "/teacher"
                                   ELSE "/parent"
           [] path = "/teacher" -> PrivateRoute({"teacher"}, authenticated, usr)
           [] path = "/admin"   -> PrivateRoute({"admin"}, authenticated, usr)
           [] path = "/parent"  -> PrivateRoute({"parent"}, authenticated, usr)
           [] path = "/login"   -> "Login"
           [] OTHER             -> "/"

\* ------------------------------------------------- pages/Login.js (27-47)
getDashboardRoute(role) ==
    CASE role = "teacher" -> "/teacher"
      [] role = "admin"   -> "/admin"
      [] role = "parent"  -> "/parent"
      [] OTHER            -> "/"

\* ------------------------------------------------------------------ state
VARIABLES
    lsAccessToken,    \* localStorage["accessToken"]
    lsRefreshToken,   \* localStorage["refreshToken"]
    authHeader,       \* api.defaults.headers.common["Authorization"] (the token after "Bearer ")
    user,             \* AuthProvider state: user
    isAuthenticated,  \* AuthProvider state: isAuthenticated
    loading,          \* AuthProvider state: loading
    interceptors,     \* retry interceptors registered by the setupInterceptors effect
    effectSeen,       \* isAuthenticated of the render whose effects ran last
    inflight,         \* requests issued through the api client, by slot
    now,              \* Date.now() / 1000
    nextSer,          \* backend: serial of the next token it issues
    ev                \* what the last step did and which promise it settled

vars == <<lsAccessToken, lsRefreshToken, authHeader, user, isAuthenticated, loading,
          interceptors, effectSeen, inflight, now, nextSer, ev>>

Slots == DOMAIN inflight

Idle == [phase |-> "idle", kind |-> "none", bearer |-> NoToken, retry |-> FALSE,
         waiter |-> 0, icpt |-> 0, n401 |-> 0, refreshCalls |-> 0, reissued |-> 0,
         authAtSend |-> FALSE]

NoEv(op) == [op |-> op, answered |-> "none", status |-> "none", settled |-> "none",
             threw |-> FALSE, success |-> FALSE, err |-> "none", n401 |-> 0,
             refreshCalls |-> 0, reissued |-> 0, authAtSend |-> FALSE,
             retry |-> FALSE, logouts |-> 0, refreshInv |-> 0,
             refreshFail |-> 0, refreshErr |-> "none", icpt |-> 0,
             data |-> NoToken, wasAuth |-> FALSE, hadRT |-> FALSE]

\* the mutable session a handler works on during one step, with a record of
\* what the step invoked: calls of logout() and of refreshToken(), failures
\* of refreshToken() and the error it threw last
Ctx == [lsAccessToken |-> lsAccessToken, lsRefreshToken |-> lsRefreshToken,
        authHeader |-> authHeader, user |-> user, isAuthenticated |-> isAuthenticated,
        logouts |-> 0, refreshInv |-> 0, refreshFail |-> 0, refreshErr |-> "none"]

Commit(c) ==
    /\ lsAccessToken' = c.lsAccessToken
    /\ lsRefreshToken' = c.lsRefreshToken
    /\ authHeader' = c.authHeader
    /\ user' = c.user
    /\ isAuthenticated' = c.isAuthenticated

\* ------------------------------------------------- contexts/AuthContext.js
\* variant: the default Authorization header is not deleted
logout_KeepHeader(c) ==
    [c EXCEPT !.lsAccessToken = NoToken, !.lsRefreshToken = NoToken,
              !.user = NullUser, !.isAuthenticated = FALSE, !.logouts = @ + 1]

\* variant: a first call drops the access token, the header and the user, the
\* refresh token only goes when no access token is left
logout_Stepwise(c) ==
    [c EXCEPT !.lsAccessToken = NoToken,
              !.lsRefreshToken = IF c.lsAccessToken = NoToken THEN NoToken ELSE @,
              !.authHeader = NoToken, !.user = NullUser,
              !.isAuthenticated = FALSE, !.logouts = @ + 1]

logout(c) ==
    [c EXCEPT !.lsAccessToken = NoToken, !.lsRefreshToken = NoToken,
              !.authHeader = NoToken, !.user = NullUser,
              !.isAuthenticated = FALSE, !.logouts = @ + 1]

\* userData built by checkAuthStatus: name and role only
TokenUserData(tokenData) ==
    [isnull |-> FALSE, name |-> TrimName(tokenData.first_name, tokenData.last_name),
     role |-> tokenData.role, email |-> Undef, id |-> 0]

\* userData built by login from response.data.user
LoginUserData(userInfo) ==
    [isnull |-> FALSE, name |-> TrimName(userInfo.first_name, userInfo.last_name),
     role |-> userInfo.role, email |-> userInfo.email, id |-> userInfo.id]

\* checkAuthStatus reads the clock twice: isTokenValid(token) at t1 and, inside
\* getUserFromToken, again at t2
checkAuthStatus(c, t1, t2) ==
    LET token == c.lsAccessToken
    IN  IF token # NoToken /\ isTokenValid(token, t1)
        THEN LET tokenData == getUserFromToken(token, t2)
             IN  IF ~tokenData.isnull
                 THEN [c EXCEPT !.user = TokenUserData(tokenData),
                                !.isAuthenticated = TRUE,
                                !.authHeader = token]
                 ELSE c
        ELSE c

\* variant: the profile is taken from the decoded access token, as
\* checkAuthStatus does
loginResume_FromToken(c, err, data) ==
    IF err # "none"
    THEN [c |-> c, threw |-> FALSE, success |-> FALSE, err |-> err]
    ELSE IF data.shape = "nodata"
    THEN [c |-> c, threw |-> FALSE, success |-> FALSE, err |-> "TypeError"]
    ELSE LET c1 == [c EXCEPT !.lsAccessToken = data.access_token,
                             !.lsRefreshToken = data.refresh_token]
         IN  IF data.shape = "nouser"
             THEN [c |-> c1, threw |-> FALSE, success |-> FALSE, err |-> "TypeError"]
             ELSE [c |-> [c1 EXCEPT !.user = TokenUserData(decodeToken(data.access_token)),
                                    !.isAuthenticated = TRUE,
                                    !.authHeader = data.access_token],
                   threw |-> FALSE, success |-> TRUE, err |-> "none"]

\* variant: the catch block rethrows instead of returning {success: false}
loginResume_Rethrow(c, err, data) ==
    IF err # "none"
    THEN [c |-> c, threw |-> TRUE, success |-> FALSE, err |-> err]
    ELSE IF data.shape = "nodata"
    THEN [c |-> c, threw |-> TRUE, success |-> FALSE, err |-> "TypeError"]
    ELSE LET c1 == [c EXCEPT !.lsAccessToken = data.access_token,
                             !.lsRefreshToken = data.refresh_token]
         IN  IF data.shape = "nouser"
             THEN [c |-> c1, threw |-> TRUE, success |-> FALSE, err |-> "TypeError"]
             ELSE [c |-> [c1 EXCEPT !.user = LoginUserData(UserTable(data.u)),
                                    !.isAuthenticated = TRUE,
                                    !.authHeader = data.access_token],
                   threw |-> FALSE, success |-> TRUE, err |-> "none"]

\* login after the await: err is the rejection of api.post ("none" when it
\* resolved), data the response.data
loginResume(c, err, data) ==
    IF err # "none"
    THEN [c |-> c, threw |-> FALSE, success |-> FALSE, err |-> err]
    ELSE IF data.shape = "nodata"
    THEN [c |-> c, threw |-> FALSE, success |-> FALSE, err |-> "TypeError"]
    ELSE LET c1 == [c EXCEPT !.lsAccessToken = data.access_token,
                             !.lsRefreshToken = data.refresh_token]
         IN  IF data.shape = "nouser"
             THEN [c |-> c1, threw |-> FALSE, success |-> FALSE, err |-> "TypeError"]
             ELSE [c |-> [c1 EXCEPT !.user = LoginUserData(UserTable(data.u)),
                                    !.isAuthenticated = TRUE,
                                    !.authHeader = data.access_token],
                   threw |-> FALSE, success |-> TRUE, err |-> "none"]

\* variant: the stored refresh token is not looked at before the call
refreshToken_NoCheck(c) ==
    [c |-> [c EXCEPT !.refreshInv = @ + 1], threw |-> FALSE, err |-> "none"]

\* refreshToken up to its await: throws at once without a refresh token
refreshToken(c) ==
    LET c1 == [c EXCEPT !.refreshInv = @ + 1]
    IN  IF c1.lsRefreshToken = NoToken
        THEN [c |-> logout([c1 EXCEPT !.refreshFail = @ + 1,
                                      !.refreshErr = "NoRefreshToken"]),
              threw |-> TRUE, err |-> "NoRefreshToken"]
        ELSE [c |-> c1, threw |-> FALSE, err |-> "none"]

\* variant: the catch block rethrows without calling logout()
refreshTokenResume_NoLogout(c, err, data) ==
    IF err # "none"
    THEN [c |-> [c EXCEPT !.refreshFail = @ + 1, !.refreshErr = err],
          threw |-> TRUE, success |-> FALSE, err |-> err]
    ELSE [c |-> [c EXCEPT !.lsAccessToken = data.access_token,
                          !.authHeader = data.access_token],
          threw |-> FALSE, success |-> TRUE, err |-> "none"]

\* variant: the response's refresh token is persisted as well (rotation)
refreshTokenResume_Rotate(c, err, data) ==
    IF err # "none"
    THEN [c |-> logout([c EXCEPT !.refreshFail = @ + 1, !.refreshErr = err]),
          threw |-> TRUE, success |-> FALSE, err |-> err]
    ELSE [c |-> [c EXCEPT !.lsAccessToken = data.access_token,
                          !.lsRefreshToken = data.refresh_token,
                          !.authHeader = data.access_token],
          threw |-> FALSE, success |-> TRUE, err |-> "none"]

\* refreshToken after the await
refreshTokenResume(c, err, data) ==
    IF err # "none"
    THEN [c |-> logout([c EXCEPT !.refreshFail = @ + 1, !.refreshErr = err]),
          threw |-> TRUE, success |-> FALSE, err |-> err]
    ELSE [c |-> [c EXCEPT !.lsAccessToken = data.access_token,
                          !.authHeader = data.access_token],
          threw |-> FALSE, success |-> TRUE, err |-> "none"]

updateProfileResume(c, err, data) ==
    IF err # "none"
    THEN [c |-> c, threw |-> FALSE, success |-> FALSE, err |-> err]
    ELSE [c |-> [c EXCEPT !.user = LoginUserData(UserTable(data.u))],
          threw |-> FALSE, success |-> TRUE, err |-> "none"]

\* variant: the catch block rethrows instead of returning {success: false}
changePasswordResume_Rethrow(c, err, data) ==
    IF err # "none"
    THEN [c |-> c, threw |-> TRUE, success |-> FALSE, err |-> err]
    ELSE [c |-> c, threw |-> FALSE, success |-> TRUE, err |-> "none"]

changePasswordResume(c, err, data) ==
    IF err # "none"
    THEN [c |-> c, threw |-> FALSE, success |-> FALSE, err |-> err]
    ELSE [c |-> c, threw |-> FALSE, success |-> TRUE, err |-> "none"]

\* a dashboard's own api.get/post: the promise goes to the page as it is
dataResume(c, err, data) ==
    [c |-> c, threw |-> (err # "none"), success |-> (err = "none"), err |-> err]


\* ---------------------------------------------------------- services/api.js
\* request interceptor: axios has merged the default header under the one
\* of the call's own config (cfgAuth); the interceptor then overwrites it
\* with the stored access token when there is one
requestInterceptor(c, cfgAuth) ==
    LET merged == IF cfgAuth # NoToken THEN cfgAuth ELSE c.authHeader
    IN  IF c.lsAccessToken # NoToken THEN c.lsAccessToken ELSE merged

\* what the standardized-response interceptor hands on for a backend answer
ApiError(oc) ==
    CASE oc = "s401"    -> "http401"
      [] oc = "s403"    -> "http403"
      [] oc = "s500"    -> "http500"
      [] oc = "okfalse" -> "http200false"
      [] oc = "net"     -> "network"
      [] OTHER          -> "none"

\* variant: case 500 removes the persisted tokens as case 401 does
apiErrorHandler_Clear5xx(c, err) ==
    IF err \in {"http401", "http500"}
    THEN [c EXCEPT !.lsAccessToken = NoToken, !.lsRefreshToken = NoToken]
    ELSE c

\* variant: case 401 only logs, the persisted tokens stay
apiErrorHandler_Keep(c, err) == c

\* its error handler: case 401 removes both persisted tokens
apiErrorHandler(c, err) ==
    IF err = "http401"
    THEN [c EXCEPT !.lsAccessToken = NoToken, !.lsRefreshToken = NoToken]
    ELSE c

\* ------------------------------------- AuthContext.js: setupInterceptors
\* One registered retry interceptor applied to x = [c, err, retry, suspend].
\* A resolved response passes; a 401 of a request not yet marked sets the
\* marker and calls refreshToken(): either it throws at once (then logout()
\* and reject(refreshError)) or the handler suspends on the refresh call.
\* refreshError has no response, so it falls through to reject(error).
\* variant: the marker is never set on the request's config
retryInterceptor_NoMarker(x) ==
    IF x.err = "http401" /\ ~x.retry
    THEN LET rt == refreshToken(x.c)
         IN  IF rt.threw
             THEN [c |-> logout(rt.c), err |-> rt.err, retry |-> x.retry, suspend |-> FALSE]
             ELSE [c |-> rt.c, err |-> x.err, retry |-> x.retry, suspend |-> TRUE]
    ELSE x

\* variant: the catch block rejects with the original error
retryInterceptor_OrigError(x) ==
    IF x.err = "http401" /\ ~x.retry
    THEN LET rt == refreshToken(x.c)
         IN  IF rt.threw
             THEN [c |-> logout(rt.c), err |-> x.err, retry |-> TRUE, suspend |-> FALSE]
             ELSE [c |-> rt.c, err |-> x.err, retry |-> TRUE, suspend |-> TRUE]
    ELSE x

\* variant: every rejection, with or without a response, is refreshed
retryInterceptor_AnyError(x) ==
    IF x.err # "none" /\ ~x.retry
    THEN LET rt == refreshToken(x.c)
         IN  IF rt.threw
             THEN [c |-> logout(rt.c), err |-> rt.err, retry |-> TRUE, suspend |-> FALSE]
             ELSE [c |-> rt.c, err |-> x.err, retry |-> TRUE, suspend |-> TRUE]
    ELSE x

\* variant: a 401 that arrives when the session is already logged out is
\* rejected without another refreshToken() call
retryInterceptor_Coalesce(x) ==
    IF x.err = "http401" /\ ~x.retry
    THEN IF ~x.c.isAuthenticated
         THEN [c |-> x.c, err |-> x.err, retry |-> TRUE, suspend |-> FALSE]
         ELSE LET rt == refreshToken(x.c)
              IN  IF rt.threw
                  THEN [c |-> logout(rt.c), err |-> rt.err, retry |-> TRUE,
                        suspend |-> FALSE]
                  ELSE [c |-> rt.c, err |-> x.err, retry |-> TRUE, suspend |-> TRUE]
    ELSE x

retryInterceptor(x) ==
    IF x.err = "http401" /\ ~x.retry
    THEN LET rt == refreshToken(x.c)
         IN  IF rt.threw
             THEN [c |-> logout(rt.c), err |-> rt.err, retry |-> TRUE, suspend |-> FALSE]
             ELSE [c |-> rt.c, err |-> x.err, retry |-> TRUE, suspend |-> TRUE]
    ELSE x

\* the registered retry interceptors, in registration order
RECURSIVE RetryChain(_, _)
RetryChain(n, x) ==
    IF n = 0 \/ x.suspend THEN x ELSE RetryChain(n - 1, retryInterceptor(x))

NewRequest(kind, c, cfgAuth, waiter) ==
    [phase |-> "sent", kind |-> kind, bearer |-> requestInterceptor(c, cfgAuth),
     retry |-> FALSE, waiter |-> waiter, icpt |-> interceptors, n401 |-> 0,
     refreshCalls |-> 0, reissued |-> 0, authAtSend |-> c.isAuthenticated]

\* api(originalRequest): the config keeps its marker and its header, the
\* request interceptor runs again
Reissue(c, r) ==
    [r EXCEPT !.phase = "sent", !.bearer = requestInterceptor(c, r.bearer),
              !.icpt = interceptors, !.reissued = @ + 1]

ResumeOf(kind, c, err, data) ==
    CASE kind = "login"    -> loginResume(c, err, data)
      [] kind = "refresh"  -> refreshTokenResume(c, err, data)
      [] kind = "profile"  -> updateProfileResume(c, err, data)
      [] kind = "password" -> changePasswordResume(c, err, data)
      [] OTHER             -> dataResume(c, err, data)

NoRes == [settled |-> "none", threw |-> FALSE, success |-> FALSE, err |-> "none",
          n401 |-> 0, refreshCalls |-> 0, reissued |-> 0, authAtSend |-> FALSE,
          retry |-> FALSE, icpt |-> 0]

\* The promise of request i settles with err ("none": resolved with data):
\* the operation awaiting it resumes.  A refresh call made by a retry
\* interceptor resumes that interceptor: it re-issues the original request
\* (line 211) or calls logout() and rejects the original request with
\* refreshError (lines 213-214); the interceptors registered after it see a
\* marked config or an error without response and pass it on.
RECURSIVE Settle(_, _, _, _, _)
Settle(c, fl, i, err, data) ==
    LET r   == fl[i]
        out == ResumeOf(r.kind, c, err, data)
        fl1 == [fl EXCEPT ![i] = Idle]
    IN  IF r.kind = "refresh" /\ r.waiter # 0
        THEN IF out.threw
             THEN Settle(logout(out.c), fl1, r.waiter, out.err, data)
             ELSE [c |-> out.c,
                   fl |-> [fl1 EXCEPT ![r.waiter] = Reissue(out.c, @)],
                   res |-> NoRes]
        ELSE [c |-> out.c, fl |-> fl1,
              res |-> [settled |-> r.kind, threw |-> out.threw, success |-> out.success,
                       err |-> out.err, n401 |-> r.n401, refreshCalls |-> r.refreshCalls,
                       reissued |-> r.reissued, authAtSend |-> r.authAtSend,
                       retry |-> r.retry, icpt |-> r.icpt]]


\* ---------------------------------------------------------------- actions
Init ==
    /\ lsAccessToken \in InitAccess
    /\ lsRefreshToken \in InitRefresh
    /\ lsRefreshToken # NoToken => lsAccessToken # NoToken
    /\ authHeader = NoToken
    /\ user = NullUser
    /\ isAuthenticated = FALSE
    /\ loading = TRUE
    /\ interceptors = 0
    /\ effectSeen = FALSE
    /\ inflight = [i \in 1..MaxReq |-> Idle]
    /\ now = 0
    /\ nextSer = 1
    /\ ev = NoEv("init")

\* Slots are names for the pending requests only: the pending ones are kept
\* in the lowest slots, in the order they were sent.
Before(fl, i) == Cardinality({ j \in Slots : j < i /\ fl[j].phase # "idle" })

Compact(fl) ==
    [k \in Slots |->
        IF \E i \in Slots : fl[i].phase # "idle" /\ Before(fl, i) = k - 1
        THEN LET i == CHOOSE i \in Slots : fl[i].phase # "idle" /\ Before(fl, i) = k - 1
             IN  [fl[i] EXCEPT !.waiter = IF @ = 0 THEN 0 ELSE Before(fl, @) + 1]
        ELSE Idle]

FreeSlots == { i \in Slots : inflight[i].phase = "idle" }

Lowest(S) == CHOOSE i \in S : \A j \in S : i <= j

\* A step that only settles a promise records the settlement; a step that
\* handled a 401 or called logout() also records the request's history and
\* the session it started from.
EvBrief(op, res) ==
    [NoEv(op) EXCEPT !.settled = res.settled, !.threw = res.threw,
                     !.success = res.success, !.err = res.err, !.icpt = res.icpt]

EvOf(op, c, res) ==
    [NoEv(op) EXCEPT !.settled = res.settled, !.threw = res.threw,
                     !.success = res.success, !.err = res.err, !.n401 = res.n401,
                     !.refreshCalls = res.refreshCalls, !.reissued = res.reissued,
                     !.authAtSend = res.authAtSend, !.retry = res.retry,
                     !.icpt = res.icpt,
                     !.logouts = c.logouts, !.refreshInv = c.refreshInv,
                     !.refreshFail = c.refreshFail, !.refreshErr = c.refreshErr,
                     !.wasAuth = isAuthenticated,
                     !.hadRT = (lsRefreshToken # NoToken)]

\* useEffect(() => { checkAuthStatus(); }, []) of the first render
Startup ==
    /\ loading
    /\ \E t2 \in {now, now + 1} :
          /\ t2 <= MaxTime
          /\ now' = t2
          /\ Commit(checkAuthStatus(Ctx, now, t2))
    /\ loading' = FALSE
    /\ ev' = NoEv("restore")
    /\ UNCHANGED <<interceptors, effectSeen, inflight, nextSer>>

\* useEffect(..., [isAuthenticated, refreshToken]): runs after a render in
\* which isAuthenticated changed and registers one more interceptor when it
\* is true; nothing ever ejects one
SetupInterceptorsEffect ==
    /\ effectSeen # isAuthenticated
    /\ isAuthenticated => interceptors < MaxIcpt
    /\ effectSeen' = isAuthenticated
    /\ interceptors' = IF isAuthenticated THEN interceptors + 1 ELSE interceptors
    /\ ev' = NoEv("step")
    /\ UNCHANGED <<lsAccessToken, lsRefreshToken, authHeader, user, isAuthenticated,
                   loading, inflight, now, nextSer>>

Send(kind) ==
    /\ ~loading
    /\ FreeSlots # {}
    /\ inflight' = [inflight EXCEPT ![Lowest(FreeSlots)] = NewRequest(kind, Ctx, NoToken, 0)]
    /\ ev' = NoEv("step")
    /\ UNCHANGED <<lsAccessToken, lsRefreshToken, authHeader, user, isAuthenticated,
                   loading, interceptors, effectSeen, now, nextSer>>

\* Login page: handleSubmit -> login(); the page exists while unauthenticated
\* and its button is disabled while a login is pending
CallLogin ==
    /\ ~isAuthenticated
    /\ \A i \in Slots : inflight[i].kind # "login"
    /\ Send("login")

\* a dashboard's api.get / api.post; dashboards are behind PrivateRoute
CallApi ==
    /\ isAuthenticated
    /\ Send("data")

CallUpdateProfile ==
    /\ isAuthenticated
    /\ Send("profile")

CallChangePassword ==
    /\ isAuthenticated
    /\ Send("password")

\* refreshToken() called through the context value
CallRefreshToken ==
    /\ ~loading
    /\ isAuthenticated
    /\ FreeSlots # {}
    /\ LET rt == refreshToken(Ctx)
       IN  /\ Commit(rt.c)
           /\ inflight' = IF rt.threw THEN inflight
                          ELSE [inflight EXCEPT ![Lowest(FreeSlots)] =
                                   NewRequest("refresh", rt.c, rt.c.lsRefreshToken, 0)]
           /\ ev' = [NoEv("refresh") EXCEPT
                        !.settled = IF rt.threw THEN "refresh" ELSE "none",
                        !.threw = rt.threw, !.err = rt.err,
                        !.logouts = rt.c.logouts, !.refreshInv = rt.c.refreshInv,
                        !.refreshFail = rt.c.refreshFail, !.refreshErr = rt.c.refreshErr,
                        !.authAtSend = isAuthenticated, !.wasAuth = isAuthenticated,
                        !.hadRT = (lsRefreshToken # NoToken)]
    /\ UNCHANGED <<loading, interceptors, effectSeen, now, nextSer>>

\* logout() called through the context value (dashboard button)
CallLogout ==
    /\ ~loading
    /\ LET c == logout(Ctx)
       IN  /\ Commit(c)
           /\ ev' = [NoEv("logout") EXCEPT !.logouts = c.logouts,
                                            !.wasAuth = isAuthenticated]
    /\ UNCHANGED <<loading, interceptors, effectSeen, inflight, now, nextSer>>

Outcomes(kind) ==
    IF kind = "login"
    THEN {"ok", "nodata", "nouser", "okfalse", "s401", "s403", "s500", "net"}
    ELSE {"ok", "okfalse", "s401", "s403", "s500", "net"}

Issues(kind, oc) ==
    \/ kind \in {"login", "refresh"} /\ oc = "ok"
    \/ oc = "nouser"

\* The backend answers request i with outcome oc (u: the account of a login
\* or profile answer).  The response interceptors run in registration order
\* (api.js first, then the retry interceptors the request was sent with),
\* then the awaiting operation resumes.
Respond(i, oc, u) ==
    LET r    == inflight[i]
        uu   == IF r.kind = "refresh" THEN r.bearer.u ELSE u
        data == [shape |-> IF oc \in {"nodata", "nouser"} THEN oc ELSE "full",
                 \* the backend stamps exp one second ahead
                 access_token |-> AccessTok(uu, now + 1, nextSer),
                 refresh_token |-> RefreshTok(uu, nextSer), u |-> uu]
        err0 == ApiError(oc)
        c1   == apiErrorHandler(Ctx, err0)
        r1   == [r EXCEPT !.n401 = IF err0 = "http401" THEN @ + 1 ELSE @]
        x    == RetryChain(r.icpt, [c |-> c1, err |-> err0, retry |-> r.retry,
                                    suspend |-> FALSE])
        r2   == [r1 EXCEPT !.retry = x.retry]
        free == FreeSlots
    IN  /\ r.phase = "sent"
        /\ oc \in Outcomes(r.kind)
        /\ Issues(r.kind, oc) => nextSer <= MaxSer
        /\ (r.kind = "refresh" /\ oc = "ok") => r.bearer # NoToken
        /\ (r.kind \notin {"login", "profile"} \/ oc \notin {"ok", "nouser"}) => u = 1
        /\ nextSer' = IF Issues(r.kind, oc) THEN nextSer + 1 ELSE nextSer
        /\ IF x.suspend
           THEN /\ free # {}
                /\ Commit(x.c)
                /\ inflight' = [inflight EXCEPT
                       ![i] = [r2 EXCEPT !.phase = "awaitRefresh", !.refreshCalls = @ + 1],
                       ![Lowest(free)] = NewRequest("refresh", x.c, x.c.lsRefreshToken, i)]
                /\ ev' = [EvOf("respond", x.c,
                              [NoRes EXCEPT !.n401 = r2.n401, !.retry = r2.retry,
                                            !.authAtSend = r2.authAtSend,
                                            !.icpt = r2.icpt,
                                            !.refreshCalls = r2.refreshCalls + 1])
                             EXCEPT !.answered = r.kind, !.status = err0]
           ELSE LET st == Settle(x.c, [inflight EXCEPT ![i] = r2], i, x.err, data)
                IN  /\ Commit(st.c)
                    /\ inflight' = Compact(st.fl)
                    /\ ev' = [(IF err0 = "http401" \/ st.c.logouts > 0
                                  THEN EvOf("respond", st.c, st.res)
                                  ELSE EvBrief("respond", st.res)) EXCEPT
                                 !.answered = r.kind, !.status = err0,
                                 !.data = IF oc = "ok" /\ Issues(r.kind, oc)
                                          THEN data.access_token ELSE NoToken]
        /\ UNCHANGED <<loading, interceptors, effectSeen, now>>

Answer == \E i \in Slots, oc \in Outcomes("login"), u \in Accounts : Respond(i, oc, u)

\* The clock is read by checkAuthStatus only (the backend stamps exp on its
\* own): time is advanced where it can be observed, before the restore.
Tick ==
    /\ loading
    /\ now < MaxTime
    /\ now' = now + 1
    /\ ev' = NoEv("tick")
    /\ UNCHANGED <<lsAccessToken, lsRefreshToken, authHeader, user, isAuthenticated,
                   loading, interceptors, effectSeen, inflight, nextSer>>

\* the page is reloaded: only localStorage survives
Reload ==
    /\ ~loading
    /\ authHeader' = NoToken
    /\ user' = NullUser
    /\ isAuthenticated' = FALSE
    /\ loading' = TRUE
    /\ interceptors' = 0
    /\ effectSeen' = FALSE
    /\ inflight' = [i \in Slots |-> Idle]
    /\ ev' = NoEv("reload")
    /\ UNCHANGED <<lsAccessToken, lsRefreshToken, now, nextSer>>

Next ==
    \/ Startup
    \/ SetupInterceptorsEffect
    \/ CallLogin
    \/ CallApi
    \/ CallUpdateProfile
    \/ CallChangePassword
    \/ CallRefreshToken
    \/ CallLogout
    \/ Answer
    \/ Tick
    \/ Reload

Spec == Init /\ [][Next]_vars

\* ------------------------------------------- several requests in flight
\* The session right after the restore found a valid access token, with
\* room for MaxConc requests in flight together; the page stays loaded.
ConcInit ==
    /\ lsAccessToken = AccessTok(1, 1, 0)
    /\ lsRefreshToken \in InitRefresh
    /\ authHeader = lsAccessToken
    /\ user = TokenUserData(getUserFromToken(lsAccessToken, 0))
    /\ isAuthenticated = TRUE
    /\ loading = FALSE
    /\ interceptors = 0
    /\ effectSeen = FALSE
    /\ inflight = [i \in 1..MaxConc |-> Idle]
    /\ now = 0
    /\ nextSer = 1
    /\ ev = NoEv("restore")

\* the dashboards' calls, refreshToken() and the logout button
ConcNext ==
    \/ SetupInterceptorsEffect
    \/ CallApi
    \/ CallRefreshToken
    \/ CallLogout
    \/ Answer

ConcSpec == ConcInit /\ [][ConcNext]_vars

\* ------------------------------------------------ the token codec alone
\* utils/auth.js called on the token held in the store, at the clock's
\* current time; ev records the call and what it returned.
CodecTokens ==
    {NoToken} \cup
    [typ : {"access"}, nseg : 1..MaxSeg, mid : {"json", "notjson", "notbase64"},
     u : {1, 2}, exp : {NoExp} \cup (0..(MaxTime + 1)), ser : {0}]

CodecEv == [op |-> "none", payload |-> NullPayload, valid |-> "none",
            before |-> "none", profile |-> NullProfile]

CodecInit ==
    /\ lsAccessToken \in CodecTokens
    /\ lsRefreshToken = NoToken
    /\ authHeader = NoToken
    /\ user = NullUser
    /\ isAuthenticated = FALSE
    /\ loading = TRUE
    /\ interceptors = 0
    /\ effectSeen = FALSE
    /\ inflight = [i \in 1..MaxReq |-> Idle]
    /\ now = 0
    /\ nextSer = 1
    /\ ev = CodecEv

CodecFrame ==
    UNCHANGED <<lsAccessToken, lsRefreshToken, authHeader, user, isAuthenticated,
                loading, interceptors, effectSeen, inflight, nextSer>>

CodecTick ==
    /\ now < MaxTime
    /\ now' = now + 1
    /\ ev' = [ev EXCEPT !.op = "tick"]
    /\ CodecFrame

CallDecodeToken ==
    /\ ev' = [ev EXCEPT !.op = "decodeToken", !.payload = decodeToken(lsAccessToken)]
    /\ UNCHANGED now
    /\ CodecFrame

\* valid: what this call returned; before: what the call before it returned
CallIsTokenValid ==
    /\ ev' = [ev EXCEPT !.op = "isTokenValid",
                        !.valid = IF isTokenValid(lsAccessToken, now)
                                  THEN "true" ELSE "false",
                        !.before = ev.valid]
    /\ UNCHANGED now
    /\ CodecFrame

CallGetUserFromToken ==
    /\ ev' = [ev EXCEPT !.op = "getUserFromToken",
                        !.profile = getUserFromToken(lsAccessToken, now)]
    /\ UNCHANGED now
    /\ CodecFrame

CodecNext ==
    \/ CodecTick
    \/ CallDecodeToken
    \/ CallIsTokenValid
    \/ CallGetUserFromToken

CodecSpec == CodecInit /\ [][CodecNext]_vars


\* ----------------------------------------------------------------- claims
\* the session as logout() leaves it
LoggedOut ==
    /\ lsAccessToken = NoToken
    /\ lsRefreshToken = NoToken
    /\ authHeader = NoToken
    /\ user = NullUser
    /\ ~isAuthenticated

\* the last step delivered a backend answer to a dashboard or profile call
\* that was sent, and is answered, in an Authenticated session holding a
\* refresh token, with a retry interceptor on its chain
ProtectedAnswer ==
    /\ ev.op = "respond"
    /\ ev.answered \in {"data", "profile", "password"}
    /\ ev.authAtSend /\ ev.wasAuth /\ ev.hadRT
    /\ ev.icpt > 0

\* C1: a request of an Authenticated session that was answered with 401
\* has caused exactly one call of /auth/refresh (and at most one re-issue)
\* by the time it settles.
C1_OneRefreshOneRetry ==
    (ProtectedAnswer /\ ev.settled # "none" /\ ev.n401 >= 1)
        => (ev.refreshCalls = 1 /\ ev.reissued <= 1)

\* C2: no request is re-issued more than once, and a request for which an
\* interceptor has called refreshToken() carries the _retry marker, for any
\* number of registered retry interceptors.
C2_NoSecondRetry ==
    /\ \A i \in Slots :
          /\ inflight[i].reissued <= 1
          /\ inflight[i].refreshCalls <= 1
          /\ (inflight[i].phase = "awaitRefresh" \/ inflight[i].reissued > 0)
                => inflight[i].retry
    /\ (ev.op = "respond" /\ ev.n401 >= 1 /\ ev.refreshInv > 0)
          => (ev.retry /\ ev.reissued <= 1 /\ ev.refreshCalls <= 1 /\ ev.refreshInv = 1)

C2_Witness ==
    /\ ev.op = "respond" /\ ev.answered = "data"
    /\ ev.icpt = 2 /\ ev.n401 = 1 /\ ev.refreshInv = 1 /\ ev.retry

\* C3: the step that delivers the 401 of a protected call leaves the
\* session authenticated, the persisted refresh token in place and logout()
\* uncalled (so that the refresh and the retry can follow).
C3_StaysAuthenticated ==
    (ProtectedAnswer /\ ev.n401 = 1)
        => (isAuthenticated /\ lsRefreshToken # NoToken /\ ev.logouts = 0)

\* C4: a step in which refreshToken() failed ends logged out: no persisted
\* token, no default header, no user, isAuthenticated false.
C4_RefreshFailureLogsOut ==
    ev.refreshFail > 0 => LoggedOut

C4_Witness ==
    /\ ev.op = "respond" /\ ev.settled = "refresh" /\ ev.threw
    /\ ev.wasAuth /\ ev.err = "http403" /\ ev.refreshFail = 1

C6_AfterLogout ==
    ev.logouts > 0 =>
        /\ LoggedOut
        /\ \A allowedRoles \in (SUBSET Roles) \ {{}} :
              PrivateRoute(allowedRoles, isAuthenticated, user) = "/login"

C6_Witness ==
    ev.op = "logout" /\ ev.wasAuth /\ ev.logouts = 1

\* C7: after the restore at process start the session is fully
\* authenticated or fully unauthenticated.
C7_NoPartialSession ==
    ev.op = "restore" =>
        \/ /\ isAuthenticated /\ ~user.isnull
           /\ lsAccessToken # NoToken /\ lsRefreshToken # NoToken
        \/ /\ ~isAuthenticated /\ user.isnull
           /\ lsAccessToken = NoToken /\ lsRefreshToken = NoToken

\* C8: loading is true from process start until the restore has run and
\* false afterwards; the restore ends Authenticated exactly when the stored
\* access token has three segments, a parseable payload and exp > now.
C8_RestoreDecision ==
    /\ loading <=> ev.op \in {"init", "reload", "tick"}
    /\ loading => ~isAuthenticated
    /\ ev.op = "restore" =>
          /\ ~loading
          /\ isAuthenticated <=>
                (/\ lsAccessToken.nseg = 3 /\ lsAccessToken.mid = "json"
                 /\ lsAccessToken.exp # NoExp /\ lsAccessToken.exp > now)

C8_Witness ==
    ev.op = "restore" /\ isAuthenticated /\ lsAccessToken.exp = now + 1

\* C9: a login that returns {success: true} has persisted both tokens of the
\* response, built user from the response's user object (id and email
\* included), set the default header to the response's access token and
\* set isAuthenticated.
C9_LoginSuccess ==
    (ev.op = "respond" /\ ev.settled = "login" /\ ev.success) =>
        /\ ~ev.threw
        /\ ev.data # NoToken
        /\ lsAccessToken = ev.data
        /\ lsRefreshToken = RefreshTok(ev.data.u, ev.data.ser)
        /\ authHeader = ev.data
        /\ isAuthenticated
        /\ user.id = UserTable(ev.data.u).id
        /\ user.email = UserTable(ev.data.u).email
        /\ user.role = UserTable(ev.data.u).role
        /\ user.name = TrimName(UserTable(ev.data.u).first_name,
                                UserTable(ev.data.u).last_name)

C9_Witness ==
    ev.op = "respond" /\ ev.settled = "login" /\ ev.success /\ isAuthenticated

\* C10: login never throws; a login that fails returns {success: false,
\* error} and the controller is Unauthenticated.
C10_LoginFailure ==
    (ev.op = "respond" /\ ev.settled = "login") =>
        /\ ~ev.threw
        /\ ~ev.success => (~isAuthenticated /\ ev.err # "none")

C10_Witness ==
    /\ ev.op = "respond" /\ ev.settled = "login" /\ ~ev.success
    /\ ev.err \in {"TypeError", "network", "http401"}

\* the session: store, default header, user, isAuthenticated
Session(c) == <<c.lsAccessToken, c.lsRefreshToken, c.authHeader, c.user, c.isAuthenticated>>

\* a login call is pending
LoginInFlight == \E i \in Slots : inflight[i].phase # "idle" /\ inflight[i].kind = "login"

\* C11: while a login call is in flight the controller is in the
\* Authenticating state, the state it is in while the restore runs
\* (loading true).
C11_AuthenticatingWhileLogin ==
    LoginInFlight => loading

C13_RefreshSwapsAccessTokenOnly ==
    [][(ev'.op = "respond" /\ ev'.settled = "refresh" /\ ev'.success) =>
          /\ ev'.data # NoToken
          /\ lsAccessToken' = ev'.data
          /\ authHeader' = ev'.data
          /\ UNCHANGED <<lsRefreshToken, user, isAuthenticated>>]_vars

C13_Witness ==
    /\ ev.op = "respond" /\ ev.settled = "refresh" /\ ev.success
    /\ isAuthenticated /\ lsAccessToken = ev.data /\ lsRefreshToken # NoToken

\* the calls to /auth/refresh that are pending
RefreshPending(fl) == { i \in Slots : fl[i].phase # "idle" /\ fl[i].kind = "refresh" }

\* C14: every pending call to /auth/refresh carries the refresh token, not
\* the access token, as its bearer credential.
C14_RefreshCallCarriesRefreshToken ==
    \A i \in RefreshPending(inflight) : inflight[i].bearer.typ = "refresh"

\* C15: refreshToken() called with no refresh token in the store throws
\* "No refresh token available" to its caller, has called logout(), and
\* issues no call to /auth/refresh; a step in which refreshToken() threw
\* that error has not added a refresh call either.
C15_NoRefreshTokenFailsFast ==
    [][((ev'.op = "refresh" /\ lsRefreshToken = NoToken) =>
            (/\ ev'.settled = "refresh" /\ ev'.threw /\ ev'.err = "NoRefreshToken"
             /\ ev'.logouts = 1
             /\ lsAccessToken' = NoToken /\ lsRefreshToken' = NoToken
             /\ authHeader' = NoToken /\ user' = NullUser /\ ~isAuthenticated'
             /\ inflight' = inflight))
       /\ (ev'.refreshErr = "NoRefreshToken" =>
            (/\ ev'.logouts >= 1
             /\ Cardinality(RefreshPending(inflight'))
                    <= Cardinality(RefreshPending(inflight))))]_vars

C15_Witness ==
    /\ ev.op = "refresh" /\ ev.threw /\ ev.err = "NoRefreshToken"
    /\ ev.wasAuth /\ ~ev.hadRT /\ ev.logouts = 1 /\ LoggedOut

C17_OnlyControllerWritesStore ==
    [][(lsAccessToken' # lsAccessToken \/ lsRefreshToken' # lsRefreshToken) =>
          \/ ev'.logouts > 0
          \/ /\ ev'.op = "respond" /\ ev'.answered \in {"login", "refresh"}
             /\ ev'.status = "none"]_vars

\* C18: a request that fails without response (timeout, transport error) or
\* with status 403 or 500 settles with that error in the same step: no
\* refreshToken() call, no call to /auth/refresh, no re-issue; and a pending
\* request that never got a 401 is neither marked nor waiting for a refresh.
C18_Only401Refreshes ==
    /\ (ev.op = "respond" /\ ev.status \in {"network", "http403", "http500"}) =>
          /\ ev.settled = ev.answered
          /\ ev.err = ev.status
          /\ ev.refreshInv = 0 /\ ev.refreshCalls = 0 /\ ev.reissued = 0
    /\ \A i \in Slots :
          inflight[i].n401 = 0 =>
              /\ inflight[i].phase # "awaitRefresh"
              /\ ~inflight[i].retry
              /\ inflight[i].refreshCalls = 0 /\ inflight[i].reissued = 0

C18_Witness ==
    /\ ev.op = "respond" /\ ev.answered = "data" /\ ev.status = "network"
    /\ ev.icpt > 0 /\ ev.threw /\ isAuthenticated /\ lsRefreshToken # NoToken

\* C19 (as stated): a request that fails with a network error, a timeout or
\* a 5xx response leaves store, default header, user and isAuthenticated
\* as they were.
C19_FailureLeavesSession ==
    [][(ev'.op = "respond" /\ ev'.status \in {"network", "http500"}) =>
          UNCHANGED <<lsAccessToken, lsRefreshToken, authHeader, user,
                      isAuthenticated>>]_vars

\* C19 (amended): a request other than refreshToken's call to /auth/refresh
\* that fails with a network error, a timeout or a 5xx response leaves
\* store, default header, user and isAuthenticated as they were; a call to
\* /auth/refresh that fails so ends logged out.
C19_FailureLeavesSessionButRefresh ==
    [][(ev'.op = "respond" /\ ev'.status \in {"network", "http500"}) =>
          IF ev'.answered = "refresh"
          THEN /\ lsAccessToken' = NoToken /\ lsRefreshToken' = NoToken
               /\ authHeader' = NoToken /\ user' = NullUser /\ ~isAuthenticated'
          ELSE UNCHANGED <<lsAccessToken, lsRefreshToken, authHeader, user,
                           isAuthenticated>>]_vars

C19_Witness ==
    /\ ev.op = "respond" /\ ev.answered = "data" /\ ev.status = "http500"
    /\ ev.icpt > 0 /\ isAuthenticated
    /\ lsAccessToken # NoToken /\ lsRefreshToken # NoToken /\ authHeader # NoToken

\* C20: the answer to updateProfile or changePassword, whatever it is,
\* leaves isAuthenticated, the persisted tokens and the default header as
\* they were; user changes only when updateProfile succeeded.
C20_ProfileOpsKeepAuthState ==
    [][(ev'.op = "respond" /\ ev'.answered \in {"profile", "password"}) =>
          /\ UNCHANGED <<lsAccessToken, lsRefreshToken, authHeader, isAuthenticated>>
          /\ user' # user => (ev'.answered = "profile" /\ ev'.success)]_vars

C25_EveryRequestSettles ==
    /\ ev.op = "respond" =>
          (ev.settled = ev.answered /\ ev.refreshInv <= 1 /\ ev.reissued = 0)
    /\ \A i \in Slots :
          /\ inflight[i].phase \in {"idle", "sent"}
          /\ inflight[i].n401 = 0 /\ inflight[i].reissued = 0
          /\ inflight[i].refreshCalls = 0

C25_Witness ==
    /\ ev.op = "respond" /\ ev.answered = "refresh" /\ ev.status = "http401"
    /\ ev.settled = "refresh" /\ ev.threw /\ ev.icpt > 0 /\ ev.refreshInv = 1

\* C24 (as stated): login, refreshToken and changePassword never throw to
\* their caller; a failure is returned as {success: false, error}.
C24_NeverThrows ==
    ev.settled \in {"login", "refresh", "password"} =>
        /\ ~ev.threw
        /\ ~ev.success => ev.err # "none"

\* C24 (amended): login and changePassword never throw and return a failure
\* as {success: false, error}; refreshToken returns the new token when it
\* succeeds and, when it fails, throws the error to its caller after
\* logout().
C24_ThrowsOnlyFromRefresh ==
    /\ ev.settled \in {"login", "password"} =>
          /\ ~ev.threw
          /\ ~ev.success => ev.err # "none"
    /\ ev.settled = "refresh" =>
          /\ ev.threw <=> ~ev.success
          /\ ev.threw => (ev.err # "none" /\ ev.logouts >= 1 /\ LoggedOut)

C24_Witness ==
    /\ ev.op = "respond" /\ ev.settled = "password" /\ ev.status = "http403"
    /\ ~ev.success /\ ~ev.threw /\ ev.err = "http403"

\* C26: the user the restore builds from a valid token has id, email and
\* role of the token's payload and the display name getUserDisplayName
\* gives for it (email when there is no first and last name).
C26_RestoredProfile ==
    (ev.op = "restore" /\ isAuthenticated) =>
        LET payload == decodeToken(lsAccessToken)
        IN  /\ user.id = payload.sub
            /\ user.email = payload.email
            /\ user.role = payload.role
            /\ user.name = getUserDisplayName(payload)

\* C30: when no request is in flight, an authenticated session has an
\* access token in the store and the default header carries that token.
C30_AuthenticatedHasToken ==
    (isAuthenticated /\ \A i \in Slots : inflight[i].phase = "idle") =>
        (lsAccessToken # NoToken /\ authHeader = lsAccessToken)

\* ------------------------------------------------------- routing alone
\* The session is fixed; ev holds the browser location (path), the paths
\* visited since the start (seen), the navigations made (hops), whether the
\* last navigation led to a path visited before (revisit), and the last
\* PrivateRoute evaluation (allowed, decision).
Paths == {"/", "/teacher", "/admin", "/parent", "/login", "/other"}

RouteUsers ==
    {NullUser} \cup
    { [LoginUserData(UserTable(1)) EXCEPT !.role = r] : r \in Roles \cup {"guest", Undef} }

RouteInit ==
    /\ lsAccessToken = NoToken
    /\ lsRefreshToken = NoToken
    /\ authHeader = NoToken
    /\ isAuthenticated \in BOOLEAN
    /\ user \in IF isAuthenticated THEN RouteUsers ELSE {NullUser}
    /\ loading = FALSE
    /\ interceptors = 1
    /\ effectSeen = TRUE
    /\ inflight = [i \in 1..MaxReq |-> Idle]
    /\ now = 0
    /\ nextSer = 1
    /\ \E p \in Paths :
         ev = [op |-> "open", path |-> p, seen |-> {p}, hops |-> 0,
               revisit |-> FALSE, allowed |-> {}, decision |-> "none"]

RouteFrame ==
    UNCHANGED <<lsAccessToken, lsRefreshToken, authHeader, user, isAuthenticated,
                loading, interceptors, effectSeen, inflight, now, nextSer>>

GoTo(op, target) ==
    ev' = [ev EXCEPT !.op = op, !.path = target, !.seen = @ \cup {target},
                     !.hops = @ + 1, !.revisit = (target \in ev.seen)]

\* a <Navigate replace> rendered by a route or by PrivateRoute
NavigateElement ==
    /\ ev.hops < MaxHops
    /\ AppRoutes(ev.path, isAuthenticated, user) \notin {"Login", "children"}
    /\ GoTo("navigate", AppRoutes(ev.path, isAuthenticated, user))
    /\ RouteFrame

\* Login's effect: location.state is never set, so the target is
\* getDashboardRoute(user.role)
LoginRedirectEffect ==
    /\ ev.hops < MaxHops
    /\ AppRoutes(ev.path, isAuthenticated, user) = "Login"
    /\ isAuthenticated /\ ~user.isnull
    /\ GoTo("loginRedirect", getDashboardRoute(user.role))
    /\ RouteFrame

\* PrivateRoute evaluated for a set of allowed roles
CallPrivateRoute ==
    /\ \E allowedRoles \in SUBSET (Roles \cup {"guest"}) :
         ev' = [ev EXCEPT !.op = "PrivateRoute", !.allowed = allowedRoles,
                          !.decision = PrivateRoute(allowedRoles, isAuthenticated, user)]
    /\ RouteFrame

RouteNext ==
    \/ NavigateElement
    \/ LoginRedirectEffect
    \/ CallPrivateRoute

RouteSpec == RouteInit /\ [][RouteNext]_vars

\* C21: PrivateRoute's decision equals the reference: unauthenticated ->
\* /login; authenticated and no allowed roles -> the screen; authenticated and
\* role among the allowed roles -> the screen; otherwise the dashboard of the
\* user's own role (/admin, /teacher, /parent), /login when the role is none
\* of the three.
C21_RouteGuardDecision ==
    ev.op = "PrivateRoute" =>
        ev.decision =
            IF ~isAuthenticated THEN "/login"
            ELSE IF ev.allowed = {} THEN "children"
            ELSE IF user.role \in ev.allowed THEN "children"
            ELSE IF user.role = "admin" THEN "/admin"
            ELSE IF user.role = "teacher" THEN "/teacher"
            ELSE IF user.role = "parent" THEN "/parent"
            ELSE "/login"

C21_Witness ==
    /\ ev.op = "PrivateRoute" /\ isAuthenticated /\ user.role = "teacher"
    /\ ev.allowed = {"admin"} /\ ev.decision = "/teacher"

\* C22: for an authenticated user whose role is not admin, teacher or parent
\* the redirects made by the routes, PrivateRoute and Login's effect never
\* lead back to a path already visited.
C22_RedirectChainAcyclic ==
    (isAuthenticated /\ ~user.isnull /\ user.role \notin Roles) => ~ev.revisit

\* the token is a three-segment string whose middle segment is base64url
\* JSON
Decodes(token) == token # NoToken /\ token.nseg = 3 /\ token.mid = "json"

\* C27: decodeToken returns null for an empty token, for a token with a
\* number of segments other than three and for a middle segment that is not
\* base64 or not JSON (atob and JSON.parse throw inside the try block);
\* otherwise it returns the payload the token carries.
C27_DecodeToken ==
    ev.op = "decodeToken" =>
        IF Decodes(lsAccessToken)
        THEN /\ ~ev.payload.isnull
             /\ ev.payload.sub = UserTable(lsAccessToken.u).id
             /\ ev.payload.email = UserTable(lsAccessToken.u).email
             /\ ev.payload.first_name = UserTable(lsAccessToken.u).first_name
             /\ ev.payload.last_name = UserTable(lsAccessToken.u).last_name
             /\ ev.payload.role = UserTable(lsAccessToken.u).role
             /\ ev.payload.exp = lsAccessToken.exp
             /\ ev.payload.iat = lsAccessToken.ser
        ELSE ev.payload = NullPayload

C27_Witness ==
    /\ ev.op = "decodeToken" /\ ev.payload = NullPayload
    /\ lsAccessToken.nseg = 4 /\ lsAccessToken.mid = "json"

\* C28: isTokenValid returns true exactly when the token decodes, has an
\* exp and exp > now at the time of the call (exp = now - 1 and exp = now
\* give false, exp = now + 1 gives true, no exp gives false); a token found
\* valid by one call is found invalid by a later call once now >= exp.
C28_IsTokenValid ==
    ev.op = "isTokenValid" =>
        /\ ev.valid \in {"true", "false"}
        /\ ev.valid = "true" <=>
              (/\ Decodes(lsAccessToken) /\ lsAccessToken.exp # NoExp
               /\ lsAccessToken.exp > now)
        /\ (Decodes(lsAccessToken) /\ lsAccessToken.exp \in {now - 1, now})
              => ev.valid = "false"
        /\ (Decodes(lsAccessToken) /\ lsAccessToken.exp = now + 1)
              => ev.valid = "true"
        /\ (Decodes(lsAccessToken) /\ lsAccessToken.exp = NoExp)
              => ev.valid = "false"

C28_Witness ==
    /\ ev.op = "isTokenValid" /\ ev.before = "true" /\ ev.valid = "false"
    /\ lsAccessToken.exp = now

\* C29: getUserFromToken returns null exactly when isTokenValid is false at
\* the time of the call; otherwise id, email, first_name, last_name, role,
\* exp and iat of the result are sub, email, first_name, last_name, role,
\* exp and iat of the decoded payload.
C29_GetUserFromToken ==
    ev.op = "getUserFromToken" =>
        LET decoded == decodeToken(lsAccessToken)
        IN  IF isTokenValid(lsAccessToken, now)
            THEN /\ ~ev.profile.isnull /\ ~decoded.isnull
                 /\ ev.profile.id = decoded.sub
                 /\ ev.profile.email = decoded.email
                 /\ ev.profile.first_name = decoded.first_name
                 /\ ev.profile.last_name = decoded.last_name
                 /\ ev.profile.role = decoded.role
                 /\ ev.profile.exp = decoded.exp
                 /\ ev.profile.iat = decoded.iat
            ELSE ev.profile = NullProfile

C29_Witness ==
    /\ ev.op = "getUserFromToken" /\ ~ev.profile.isnull
    /\ ev.profile.role = "admin" /\ ev.profile.id = 2 /\ ev.profile.exp = now + 1

\* C31: when logout() has run while a login or a refresh call was awaiting
\* the backend, the successful completion of that call leaves the store
\* without tokens, the default Authorization header absent and
\* isAuthenticated false.
C31_LogoutIsFinal ==
    [][ (/\ ev.op = "logout"
         /\ ev'.op = "respond" /\ ev'.answered \in {"login", "refresh"}
         /\ ev'.success)
        => (/\ lsAccessToken' = NoToken /\ lsRefreshToken' = NoToken
            /\ authHeader' = NoToken /\ ~isAuthenticated') ]_vars

\* C32: in every state isAuthenticated = false implies user = null, also
\* when logout() ran while an updateProfile call was in flight.
C32_UnauthenticatedHasNoUser ==
    ~isAuthenticated => user = NullUser

\* C33: a login that returns {success: false} leaves the persisted tokens
\* and the default Authorization header as they were when its answer
\* arrived.
C33_FailedLoginKeepsStore ==
    [][ (ev'.op = "respond" /\ ev'.settled = "login" /\ ~ev'.success)
        => UNCHANGED <<lsAccessToken, lsRefreshToken, authHeader>> ]_vars

\* C34: a request sent while the session is Unauthenticated carries no
\* bearer token.
C34_NoBearerWhileUnauthenticated ==
    \A i \in Slots :
        (inflight[i].phase = "sent" /\ ~inflight[i].authAtSend /\ ~isAuthenticated)
            => inflight[i].bearer = NoToken

\* C35: a 401 answer to the /auth/refresh call makes no retry interceptor
\* call refreshToken() again and does not re-issue the refresh call.
C35_RefreshFailureNotRefreshed ==
    (ev.op = "respond" /\ ev.answered = "refresh" /\ ev.status = "http401")
        => (ev.refreshInv = 0 /\ ev.reissued = 0)

\* C36: at most one retry interceptor is registered on the API client, over
\* any sequence of restore, login and logout.
C36_AtMostOneInterceptor ==
    interceptors <= 1

====
